---- MODULE Spec2Model ----
(***************************************************************************)
(* SeedSource::Seq of random_util.hpp: a SeedSequence whose only state is  *)
(* a flags word selecting std::random_device, system_clock and             *)
(* steady_clock as seed sources.                                           *)
(*                                                                         *)
(* A 32-bit word (result_type, Flags) is a pair <<hi, lo>> of 16-bit       *)
(* halves, and a 64-bit clock count a 4-tuple of 16-bit limbs, most        *)
(* significant first, because the values exceed TLC's 32-bit integers.      *)
(***************************************************************************)
EXTENDS Integers, Sequences, FiniteSets

(* ---------------- 32-bit unsigned arithmetic on <<hi, lo>> -------------- *)

Limb == 2^16

W(hi, lo) == <<hi, lo>>

\* A small non-negative integer (a size_t index or count) as a 32-bit word.
FromNat(k) == <<(k \div Limb) % Limb, k % Limb>>

RECURSIVE BitXor(_, _)
BitXor(a, b) ==
    IF a = 0 THEN b
    ELSE IF b = 0 THEN a
    ELSE ((a + b) % 2) + 2 * BitXor(a \div 2, b \div 2)

RECURSIVE BitAnd(_, _)
BitAnd(a, b) ==
    IF a = 0 \/ b = 0 THEN 0
    ELSE ((a % 2) * (b % 2)) + 2 * BitAnd(a \div 2, b \div 2)

RECURSIVE BitOr(_, _)
BitOr(a, b) ==
    IF a = 0 THEN b
    ELSE IF b = 0 THEN a
    ELSE (IF a % 2 = 1 \/ b % 2 = 1 THEN 1 ELSE 0) + 2 * BitOr(a \div 2, b \div 2)

Xor32(x, y) == <<BitXor(x[1], y[1]), BitXor(x[2], y[2])>>
And32(x, y) == <<BitAnd(x[1], y[1]), BitAnd(x[2], y[2])>>
Or32(x, y) == <<BitOr(x[1], y[1]), BitOr(x[2], y[2])>>

Add32(x, y) ==
    LET lo == x[2] + y[2]
        hi == x[1] + y[1] + (lo \div Limb)
    IN  <<hi % Limb, lo % Limb>>

Sub32(x, y) ==
    LET lo == x[2] - y[2]
        hi == x[1] - y[1] - (IF lo < 0 THEN 1 ELSE 0)
    IN  <<(hi + 2 * Limb) % Limb, (lo + Limb) % Limb>>

\* x >> 27: the top five bits of the high half.
Shr27(x) == <<0, x[1] \div 2^11>>

\* The four bytes of a word, least significant first.
Bytes(x) == <<x[2] % 256, x[2] \div 256, x[1] % 256, x[1] \div 256>>

\* x * y modulo 2^32, by bytes, so that no partial sum leaves 31 bits.
Mul32(x, y) ==
    LET a == Bytes(x)
        b == Bytes(y)
        c1 == a[1] * b[1]
        c2 == a[1] * b[2] + a[2] * b[1] + (c1 \div 256)
        c3 == a[1] * b[3] + a[2] * b[2] + a[3] * b[1] + (c2 \div 256)
        c4 == a[1] * b[4] + a[2] * b[3] + a[3] * b[2] + a[4] * b[1] + (c3 \div 256)
    IN  <<(c3 % 256) + 256 * (c4 % 256), (c1 % 256) + 256 * (c2 % 256)>>

(* ---------------- std::seed_seq, as the standard fixes it --------------- *)

\* 0x8b8b8b8b, 1664525 and 1566083941 as words.
SeedSeqFill == W(35723, 35723)
SeedSeqMulA == W(25, 26125)
SeedSeqMulB == W(23896, 35685)

SeedSeqT(x) == Xor32(x, Shr27(x))

SeedSeqShift(n) ==
    IF n >= 623 THEN 11
    ELSE IF n >= 68 THEN 7
    ELSE IF n >= 39 THEN 5
    ELSE IF n >= 7 THEN 3
    ELSE (n - 1) \div 2

\* p and q of a range of n words.
SeedSeqP(n) == (n - SeedSeqShift(n)) \div 2
SeedSeqQ(n) == SeedSeqP(n) + SeedSeqShift(n)

\* begin[kpn] += r1; begin[kqn] += r2; begin[kn] = r2, in this order.
SeedSeqStore1(b, k, r1, r2) ==
    LET n == Len(b)
        b1 == [b EXCEPT ![((k + SeedSeqP(n)) % n) + 1] = Add32(@, r1)]
        b2 == [b1 EXCEPT ![((k + SeedSeqQ(n)) % n) + 1] = Add32(@, r2)]
    IN  [b2 EXCEPT ![(k % n) + 1] = r2]

\* begin[kpn] ^= r3; begin[kqn] ^= r4; begin[kn] = r4, in this order.
SeedSeqStore2(b, k, r3, r4) ==
    LET n == Len(b)
        b1 == [b EXCEPT ![((k + SeedSeqP(n)) % n) + 1] = Xor32(@, r3)]
        b2 == [b1 EXCEPT ![((k + SeedSeqQ(n)) % n) + 1] = Xor32(@, r4)]
    IN  [b2 EXCEPT ![(k % n) + 1] = r4]

\* One step k < m of the first pass over b (n words), seeded with v (s words).
SeedSeqPass1(b, k, v) ==
    LET n == Len(b)
        s == Len(v)
        kn == k % n
        arg == Xor32(Xor32(b[kn + 1], b[((k + SeedSeqP(n)) % n) + 1]),
                     b[((k + n - 1) % n) + 1])
    IN  CHOOSE nb \in
            {SeedSeqStore1(b, k, r1,
                           IF k = 0 THEN Add32(r1, FromNat(s))
                           ELSE IF k <= s
                           THEN Add32(Add32(r1, FromNat(kn)), v[k])
                           ELSE Add32(r1, FromNat(kn))) :
                r1 \in {Mul32(SeedSeqMulA, SeedSeqT(arg))}} : TRUE

\* One step m <= k < m + n of the second pass.
SeedSeqPass2(b, k) ==
    LET n == Len(b)
        kn == k % n
        arg == Add32(Add32(b[kn + 1], b[((k + SeedSeqP(n)) % n) + 1]),
                     b[((k + n - 1) % n) + 1])
    IN  CHOOSE nb \in
            {SeedSeqStore2(b, k, r3, Sub32(r3, FromNat(kn))) :
                r3 \in {Mul32(SeedSeqMulB, SeedSeqT(arg))}} : TRUE

\* The two loops over k. (The next array is bound as a set's only element so
\* that each step is evaluated once.)
RECURSIVE SeedSeqLoop(_, _, _, _)
SeedSeqLoop(b, k, m, v) ==
    IF k >= m + Len(b) THEN b
    ELSE CHOOSE r \in {SeedSeqLoop(nb, k + 1, m, v) :
                          nb \in {IF k < m THEN SeedSeqPass1(b, k, v)
                                           ELSE SeedSeqPass2(b, k)}} : TRUE

\* std::seed_seq(v).generate over a range of n words: the words written.
SeedSeqGenerate(v, n) ==
    IF n = 0 THEN <<>>
    ELSE SeedSeqLoop([i \in 1..n |-> SeedSeqFill], 0,
                     IF Len(v) + 1 > n THEN Len(v) + 1 ELSE n, v)

(* ---------------- Seed source flags (SeedSource namespace) --------------- *)

kRandomDevice == W(0, 1)
kSystemClock == W(0, 2)
kSteadyClock == W(0, 4)
kAll == Or32(Or32(kRandomDevice, kSystemClock), kSteadyClock)

Zero32 == W(0, 0)

(* ---------------- Bounds and the environment's values ------------------- *)

\* Longest output range handed to generate.
MaxN == 2
\* Longest iterator range handed to the range constructor.
MaxItems == 2
\* Nesting at which the compiler gives up instantiating a template.
MaxTemplateDepth == 3
\* Longest output range in the runs that compare two generate calls.
PairMaxN == 2

\* Flags words given to the mask constructor: every combination of the three
\* defined bits, and words with bits outside them.
Masks ==
    {W(0, b) : b \in 0..7} \cup {W(0, 8), W(0, 9), W(32768, 6), W(65535, 65528)}

\* Individual flag values given as elements of a range or initializer list.
FlagItems == {kRandomDevice, kSystemClock, kSteadyClock}

\* 64-bit signed tick counts the clocks may report, as four 16-bit limbs:
\* 0x0000000100000002 and 0xFFFFFFFE80000001 (negative); 0x3 and
\* 0x7FFFFFFF00010000.
SysCounts == {<<0, 1, 0, 2>>, <<65535, 65534, 32768, 1>>}
SteadyCounts == {<<0, 0, 0, 3>>, <<32767, 65535, 1, 0>>}

\* Values std::random_device may return.
RdValues == {W(1, 1), W(65535, 65535)}

\* What the caller's range holds before generate (0xDEADBEEF), and what the
\* uninitialised std::array holds (0xCCCCCCCC).
Stale == W(57005, 48879)
Indeterminate == W(52428, 52428)

\* The device's behaviour during one call: the values of its successful
\* queries; a query past the end of the stream throws.
RdStreams(n) == UNION {[1..k -> RdValues] : k \in 0..n}

(* ---------------- Seq::generate ------------------------------------------ *)

\* Events of one generate call, in order: <<kind, position>>.
EvSysNow == <<"system_clock::now", 0>>
EvSteadyNow == <<"steady_clock::now", 0>>
EvSeedSeq == <<"seed_seq::generate", 0>>
EvRdOpen == <<"random_device()", 0>>
EvRdOpenThrow == <<"random_device() throws", 0>>
EvRdQuery(i) == <<"rd()", i>>
EvRdThrow(i) == <<"rd() throws", i>>
EvWrite(i) == <<"*it = v", i>>
EvXor(i) == <<"*it ^= v", i>>

\* std::uniform_int_distribution<result_type>{0, 0xffffffff} over a generator
\* whose range is the same 32 bits: (urng() - urng.min()) + a.
dis(v) == Add32(Sub32(v, Zero32), Zero32)

\* Variants of the call-backs: the direct fill combining instead of assigning,
\* and the second pass overwriting instead of combining.
fnAssign_Xor(old, v) == Xor32(old, v)
fnXor_Overwrite(old, v) == v

\* The two call-backs handed to randDevGen.
fnAssign(old, v) == v
fnXor(old, v) == Xor32(old, v)
fnCall(fn, old, v) == IF fn = "assign" THEN fnAssign(old, v) ELSE fnXor(old, v)
fnEvent(fn, i) == IF fn = "assign" THEN EvWrite(i) ELSE EvXor(i)

\* Variant of the loop: a throwing query leaves a zero word at its position
\* before the exception goes on.
RECURSIVE randDevLoop_Substitute(_, _, _, _)
randDevLoop_Substitute(fn, p, it, rd) ==
    IF it > Len(p.out) THEN p
    ELSE IF it > Len(rd)
    THEN [p EXCEPT !.out[it] = Zero32,
                   !.ev = Append(@, EvRdThrow(it)), !.thrown = TRUE]
    ELSE CHOOSE r \in
            {randDevLoop_Substitute(fn, np, it + 1, rd) :
                np \in {[p EXCEPT
                            !.out[it] = fnCall(fn, @, dis(rd[it])),
                            !.drawn = Append(@, dis(rd[it])),
                            !.ev = @ \o <<EvRdQuery(it), fnEvent(fn, it)>>]}} :
            TRUE

\* The loop of randDevGen from position it on: draw a value and hand it to
\* the call-back; a throwing query ends the loop with the exception.
RECURSIVE randDevLoop(_, _, _, _)
randDevLoop(fn, p, it, rd) ==
    IF it > Len(p.out) THEN p
    ELSE IF it > Len(rd)
    THEN [p EXCEPT !.ev = Append(@, EvRdThrow(it)), !.thrown = TRUE]
    ELSE CHOOSE r \in
            {randDevLoop(fn, np, it + 1, rd) :
                np \in {[p EXCEPT
                            !.out[it] = fnCall(fn, @, dis(rd[it])),
                            !.drawn = Append(@, dis(rd[it])),
                            !.ev = @ \o <<EvRdQuery(it), fnEvent(fn, it)>>]}} :
            TRUE

\* randDevGen: construct the device, which may throw, then run the loop over
\* the range.
randDevGen(fn, range, rdOpens, rd) ==
    IF rdOpens
    THEN randDevLoop(fn, [out |-> range, drawn |-> <<>>,
                          ev |-> <<EvRdOpen>>, thrown |-> FALSE], 1, rd)
    ELSE [out |-> range, drawn |-> <<>>, ev |-> <<EvRdOpenThrow>>,
          thrown |-> TRUE]

\* cnt >> 32 on the signed 64-bit count, and the conversion to result_type.
Shr32(cnt) ==
    LET sign == IF cnt[1] >= 2^15 THEN Limb - 1 ELSE 0
    IN  <<sign, sign, cnt[1], cnt[2]>>
ToResultType(cnt) == <<cnt[3], cnt[4]>>

\* Variant of extractTime: the low word written before the high word.
extractTime_LowFirst(cnt, a) ==
    [arr |-> [a.arr EXCEPT ![a.arrIt] = ToResultType(cnt),
                           ![a.arrIt + 1] = ToResultType(Shr32(cnt))],
     arrIt |-> a.arrIt + 2]

\* extractTime: write the count as two words at arrIt and advance it.
extractTime(cnt, a) ==
    [arr |-> [a.arr EXCEPT ![a.arrIt] = ToResultType(Shr32(cnt)),
                           ![a.arrIt + 1] = ToResultType(cnt)],
     arrIt |-> a.arrIt + 2]

\* Variant of FillArr: the system clock extracted whether selected or not.
FillArr_AlwaysSystemClock(f, sysNow, steadyNow) ==
    LET a0 == [arr |-> [i \in 1..4 |-> Indeterminate], arrIt |-> 1]
        a1 == extractTime(sysNow, a0)
    IN  IF And32(f, kSteadyClock) # Zero32
        THEN extractTime(steadyNow, a1) ELSE a1

\* The temporary array after the selected clocks were extracted.
FillArr(f, sysNow, steadyNow) ==
    LET a0 == [arr |-> [i \in 1..4 |-> Indeterminate], arrIt |-> 1]
        a1 == IF And32(f, kSystemClock) # Zero32
              THEN extractTime(sysNow, a0) ELSE a0
    IN  IF And32(f, kSteadyClock) # Zero32
        THEN extractTime(steadyNow, a1) ELSE a1

\* The words handed to std::seed_seq: arr.begin() up to arrIt.
SeedWords(a) == SubSeq(a.arr, 1, a.arrIt - 1)

\* std::seed_seq is a function of its words and of the range's length: the
\* results for the clock readings of this model are computed once.
SeedSeqMemo ==
    {<<SeedWords(FillArr(W(0, b), s, t)), n,
       SeedSeqGenerate(SeedWords(FillArr(W(0, b), s, t)), n)>> :
        b \in {0, 2, 4, 6}, s \in SysCounts, t \in SteadyCounts,
        n \in 0..(IF MaxN > PairMaxN THEN MaxN ELSE PairMaxN)}
SeedSeq(v, n) ==
    IF \E e \in SeedSeqMemo : e[1] = v /\ e[2] = n
    THEN (CHOOSE e \in SeedSeqMemo : e[1] = v /\ e[2] = n)[3]
    ELSE SeedSeqGenerate(v, n)

\* The first pass of the clock branch: a default-constructed seed_seq when
\* no clock was selected, otherwise one over the extracted words.
MixClocks(a, n) ==
    IF a.arrIt = 1 THEN SeedSeq(<<>>, n)
    ELSE SeedSeq(SeedWords(a), n)

\* Variant of the second pass's test: f | kRandomDevice for f & kRandomDevice.
SecondPass_BitOr(f) == Or32(f, kRandomDevice) # Zero32

\* Whether the second pass over the range runs.
SecondPass(f) == And32(f, kRandomDevice) # Zero32

\* The clock branch of generate.
generateMixed(f, range, sysNow, steadyNow, rdOpens, rd) ==
    LET a == FillArr(f, sysNow, steadyNow)
        useSys == And32(f, kSystemClock) # Zero32
        useSteady == And32(f, kSteadyClock) # Zero32
        ev1 == (IF useSys THEN <<EvSysNow>> ELSE <<>>)
               \o (IF useSteady THEN <<EvSteadyNow>> ELSE <<>>)
               \o <<EvSeedSeq>>
    IN  CHOOSE g \in
            {[branch |-> "mixed",
              sys |-> IF useSys THEN <<sysNow>> ELSE <<>>,
              steady |-> IF useSteady THEN <<steadyNow>> ELSE <<>>,
              scratch |-> SeedWords(a),
              mixed |-> mixed, drawn |-> r.drawn,
              out |-> r.out, ev |-> ev1 \o r.ev, thrown |-> r.thrown] :
                mixed \in {MixClocks(a, Len(range))},
                r \in {IF SecondPass(f)
                       THEN randDevGen("xor", MixClocks(a, Len(range)),
                                       rdOpens, rd)
                       ELSE [out |-> MixClocks(a, Len(range)),
                             drawn |-> <<>>, ev |-> <<>>,
                             thrown |-> FALSE]}} : TRUE

\* The direct branch of generate.
generateDirect(range, rdOpens, rd) ==
    CHOOSE g \in
        {[branch |-> "direct", sys |-> <<>>, steady |-> <<>>,
          scratch |-> <<>>, mixed |-> <<>>, drawn |-> r.drawn,
          out |-> r.out, ev |-> r.ev, thrown |-> r.thrown] :
            r \in {randDevGen("assign", range, rdOpens, rd)}} : TRUE

\* Variants of generate: the flags compared without masking them to the three
\* defined bits, and an early return on an empty range.
generate_Unmasked(flags, range, sysNow, steadyNow, rdOpens, rd) ==
    IF flags = kRandomDevice
    THEN generateDirect(range, rdOpens, rd)
    ELSE generateMixed(flags, range, sysNow, steadyNow, rdOpens, rd)

generate_EmptyReturns(flags, range, sysNow, steadyNow, rdOpens, rd) ==
    IF Len(range) = 0
    THEN [branch |-> IF And32(flags, kAll) = kRandomDevice
                     THEN "direct" ELSE "mixed",
          sys |-> <<>>, steady |-> <<>>, scratch |-> <<>>, mixed |-> <<>>,
          drawn |-> <<>>, out |-> <<>>, ev |-> <<>>, thrown |-> FALSE]
    ELSE IF And32(flags, kAll) = kRandomDevice
    THEN generateDirect(range, rdOpens, rd)
    ELSE generateMixed(And32(flags, kAll), range, sysNow, steadyNow,
                       rdOpens, rd)

\* Seq::generate over a range of n words, with what the clocks report and
\* how the device behaves during the call.
generate(flags, range, sysNow, steadyNow, rdOpens, rd) ==
    LET f == And32(flags, kAll)
    IN  IF f = kRandomDevice
        THEN generateDirect(range, rdOpens, rd)
        ELSE generateMixed(f, range, sysNow, steadyNow, rdOpens, rd)

(* ---------------- Constructors, size and param ---------------------------- *)

\* Variant of the flags constructor: the word masked to the defined bits.
SeqFromFlags_Masked(flags) == [ok |-> TRUE, flags |-> And32(flags, kAll)]

\* Seq(Flags flags): the member is initialised from the argument.
SeqFromFlags(flags) == [ok |-> TRUE, flags |-> flags]

\* Seq(It it, EndIt endIt): flags starts at 0 and each element is OR-ed in.
SeqFromRange(items) ==
    LET acc[it \in 1..(Len(items) + 1)] ==
            IF it = 1 THEN Zero32 ELSE Or32(acc[it - 1], items[it - 1])
    IN  [ok |-> TRUE, flags |-> acc[Len(items) + 1]]

\* A program whose construction is ill-formed yields no object.
IllFormed == [ok |-> FALSE, flags |-> Zero32]

\* (Seq s{} with empty braces is the default constructor, not this one.)
\* Seq(std::initializer_list<T> il) delegates to Seq{il.begin(), il.end()}.
\* That is list-initialisation from two const T*, for which the
\* initializer-list constructors are tried first; this constructor is a
\* template over the element type and so is chosen again, with T = const T*,
\* whose body needs the next instantiation, until the compiler gives up. The
\* range constructor is never the one selected.
RECURSIVE SeqFromInitList(_, _)
SeqFromInitList(il, depth) ==
    IF depth >= MaxTemplateDepth THEN IllFormed
    ELSE SeqFromInitList(<<[into |-> il, at |-> 0],
                           [into |-> il, at |-> Len(il)]>>, depth + 1)

\* size() and param(it): the count of parameter words, and the words written.
size == 1
param(flags) == <<flags>>

(* ---------------- State ---------------------------------------------------- *)

VARIABLES
    seq,    \* the Seq object: whether it could be constructed, and its flags
    ctor,   \* how it was constructed and from what
    last,   \* the latest member call on it and all that the call did
    ref     \* a generate call the caller kept to compare later calls with

vars == <<seq, ctor, last, ref>>

NoCall ==
    [op |-> "none", flags |-> Zero32, n |-> 0,
     sysNow |-> <<>>, steadyNow |-> <<>>, rdOpens |-> TRUE, rd |-> <<>>,
     branch |-> "none", sys |-> <<>>, steady |-> <<>>, scratch |-> <<>>,
     mixed |-> <<>>, drawn |-> <<>>, out |-> <<>>, ev |-> <<>>,
     thrown |-> FALSE, size |-> 0, param |-> <<>>, afterGen |-> FALSE]

\* Whether generate was called on the object before the call now made.
Generated == last.op = "generate" \/ last.afterGen

\* Lists of individual flags, as given to the range and list constructors.
ItemLists == UNION {[1..k -> FlagItems] : k \in 0..MaxItems}

\* Seq seq; is Seq(kAll).
Init ==
    /\ seq = SeqFromFlags(kAll)
    /\ ctor = [kind |-> "flags", flags |-> kAll, items |-> <<>>]
    /\ last = NoCall
    /\ ref = NoCall

Construct(flags) ==
    /\ seq' = SeqFromFlags(flags)
    /\ ctor' = [kind |-> "flags", flags |-> flags, items |-> <<>>]
    /\ last' = NoCall
    /\ UNCHANGED ref

ConstructRange(items) ==
    /\ seq' = SeqFromRange(items)
    /\ ctor' = [kind |-> "range", flags |-> Zero32, items |-> items]
    /\ last' = NoCall
    /\ UNCHANGED ref

ConstructInitList(il) ==
    /\ seq' = SeqFromInitList(il, 0)
    /\ ctor' = [kind |-> "initializer_list", flags |-> Zero32, items |-> il]
    /\ last' = NoCall
    /\ UNCHANGED ref

\* seq.generate(bgnIt, endIt) over n stale words, while the clocks stand at
\* sysNow and steadyNow and the device behaves as rdOpens and rd say.
Generate(n, sysNow, steadyNow, rdOpens, rd) ==
    /\ seq.ok
    /\ \E g \in {generate(seq.flags, [i \in 1..n |-> Stale],
                          sysNow, steadyNow, rdOpens, rd)} :
          last' = [NoCall EXCEPT
                      !.op = "generate", !.flags = seq.flags, !.n = n,
                      !.sysNow = sysNow, !.steadyNow = steadyNow,
                      !.rdOpens = rdOpens, !.rd = rd,
                      !.branch = g.branch, !.sys = g.sys,
                      !.steady = g.steady, !.scratch = g.scratch,
                      !.mixed = g.mixed, !.drawn = g.drawn, !.out = g.out,
                      !.ev = g.ev, !.thrown = g.thrown]
    /\ UNCHANGED <<seq, ctor, ref>>

Size ==
    /\ seq.ok
    /\ last' = [NoCall EXCEPT !.op = "size", !.flags = seq.flags,
                              !.size = size, !.afterGen = Generated]
    /\ UNCHANGED <<seq, ctor, ref>>

Param ==
    /\ seq.ok
    /\ last' = [NoCall EXCEPT !.op = "param", !.flags = seq.flags,
                              !.param = param(seq.flags),
                              !.afterGen = Generated]
    /\ UNCHANGED <<seq, ctor, ref>>

\* The caller keeps the latest generate call to compare a later one with.
Keep ==
    /\ last.op = "generate"
    /\ ref' = last
    /\ UNCHANGED <<seq, ctor, last>>

\* How the device may behave during a call over n words: it opens and
\* answers some queries, or it fails to open.
RdBehaviours(n) ==
    {<<TRUE, rd>> : rd \in RdStreams(n)} \cup {<<FALSE, <<>>>>}

Next ==
    \/ \E flags \in Masks : Construct(flags)
    \/ \E items \in ItemLists : ConstructRange(items)
    \/ \E il \in ItemLists \ {<<>>} : ConstructInitList(il)
    \/ \E n \in 0..MaxN, sysNow \in SysCounts, steadyNow \in SteadyCounts :
          \E b \in RdBehaviours(n) : Generate(n, sysNow, steadyNow, b[1], b[2])
    \/ Size
    \/ Param

Spec == Init /\ [][Next]_vars

\* Two generate calls side by side: the first is kept, the second compared
\* with it. The device always answers here.
PairMasks == {W(0, 0), W(0, 8), W(0, 1), W(0, 9), W(0, 7), W(32768, 7)}
PairSteadyCounts == {<<0, 0, 0, 3>>}

PairNext ==
    \/ \E flags \in PairMasks : Construct(flags)
    \/ \E n \in 0..PairMaxN, sysNow \in SysCounts, steadyNow \in PairSteadyCounts :
          \E rd \in [1..n -> RdValues] : Generate(n, sysNow, steadyNow, TRUE, rd)
    \/ Keep

PairSpec == Init /\ [][PairNext]_vars
(* ======================= Properties ======================================= *)

\* The flags word restricted to the three defined bits, and bit tests on it.
Restricted(flags) == And32(flags, kAll)
Selects(flags, bit) == And32(flags, bit) # Zero32

\* How many events of a kind a call made, and at one position.
EvCount(ev, kind) == Cardinality({i \in 1..Len(ev) : ev[i][1] = kind})
EvCountAt(ev, kinds, pos) ==
    Cardinality({i \in 1..Len(ev) : ev[i][1] \in kinds /\ ev[i][2] = pos})

ClockKinds == {EvSysNow[1], EvSteadyNow[1]}
DeviceKinds == {EvRdOpen[1], EvRdOpenThrow[1], EvRdQuery(0)[1], EvRdThrow(0)[1]}
WriteKinds == {EvWrite(0)[1], EvXor(0)[1]}
Queries(c) == EvCount(c.ev, EvRdQuery(0)[1])

\* The high and the low 32 bits of a 64-bit count: count >> 32 and
\* count mod 2^32.
HighWord(cnt) == <<cnt[1], cnt[2]>>
LowWord(cnt) == <<cnt[3], cnt[4]>>

\* The bitwise OR of a collection of flags, bit by bit: a bit is set exactly
\* when some element has it.
RECURSIVE BitsOf(_, _)
BitsOf(a, k) == IF k = 0 THEN <<>> ELSE <<a % 2>> \o BitsOf(a \div 2, k - 1)
RECURSIVE FromBits(_)
FromBits(bs) == IF bs = <<>> THEN 0 ELSE bs[1] + 2 * FromBits(Tail(bs))
OrAllHalf(items, h) ==
    FromBits([k \in 1..16 |->
                 IF \E i \in 1..Len(items) : BitsOf(items[i][h], 16)[k] = 1
                 THEN 1 ELSE 0])
OrAll(items) == <<OrAllHalf(items, 1), OrAllHalf(items, 2)>>

\* C1: with the restricted mask equal to RandomDevice alone, a generate call
\* that returns has opened the device and then, for each position 1..N in
\* order, made one query and written its value to that position: N queries,
\* output word i the i-th value unmodified, no clock read and no mixing step.
C1_DirectFill ==
    (last.op = "generate" /\ Restricted(last.flags) = kRandomDevice
        /\ ~last.thrown)
    => /\ Len(last.ev) = 1 + 2 * last.n
       /\ last.ev[1] = EvRdOpen
       /\ \A i \in 1..last.n :
             /\ last.ev[2 * i] = EvRdQuery(i)
             /\ last.ev[2 * i + 1] = EvWrite(i)
             /\ last.out[i] = last.rd[i]
       /\ Queries(last) = last.n
       /\ Len(last.out) = last.n
       /\ \A i \in 1..Len(last.ev) :
             last.ev[i][1] \notin ClockKinds \cup {EvSeedSeq[1]}

C1_Witness ==
    /\ last.op = "generate" /\ ~last.thrown /\ last.n = 2
    /\ last.flags = W(0, 9)
    /\ last.out = <<W(1, 1), W(65535, 65535)>>

\* C2 as stated: on an empty range no clock is read and the device is
\* neither opened nor queried, whatever the mask.
C2_EmptyRangeNoAccess ==
    (last.op = "generate" /\ last.n = 0)
    => \A i \in 1..Len(last.ev) :
          last.ev[i][1] \notin ClockKinds \cup DeviceKinds

\* C2 amended: on an empty range generate makes no device query and writes
\* nothing, but it reads each selected clock once unless the restricted mask
\* is RandomDevice alone, and constructs the device when RandomDevice is
\* selected; only a mask with none of the three bits gives no clock and no
\* device access at all.
C2_EmptyRange ==
    (last.op = "generate" /\ last.n = 0)
    => LET f == Restricted(last.flags)
           direct == f = kRandomDevice
       IN  /\ Queries(last) = 0
           /\ \A i \in 1..Len(last.ev) :
                 last.ev[i][1] \notin WriteKinds \cup {EvRdThrow(0)[1]}
           /\ last.out = <<>>
           /\ EvCount(last.ev, EvSysNow[1]) =
                 (IF Selects(f, kSystemClock) /\ ~direct THEN 1 ELSE 0)
           /\ EvCount(last.ev, EvSteadyNow[1]) =
                 (IF Selects(f, kSteadyClock) /\ ~direct THEN 1 ELSE 0)
           /\ EvCount(last.ev, EvRdOpen[1])
                 + EvCount(last.ev, EvRdOpenThrow[1]) =
                 (IF Selects(f, kRandomDevice) THEN 1 ELSE 0)
           /\ (f = Zero32 =>
                 \A i \in 1..Len(last.ev) :
                    last.ev[i][1] \notin ClockKinds \cup DeviceKinds)

C2_Witness ==
    /\ last.op = "generate" /\ last.n = 0 /\ ~last.thrown
    /\ last.flags = W(0, 7)
    /\ last.ev = <<EvSysNow, EvSteadyNow, EvSeedSeq, EvRdOpen>>

\* C3: with RandomDevice and at least one clock selected, output word i is
\* M[i] XOR e_i, M being std::seed_seq's output over the clock words and e_i
\* the i-th value drawn; and of two such calls with the same mask, length and
\* clock readings whose drawn values differ at every position, the outputs
\* differ at every position.
C3_XorPass ==
    /\ (last.op = "generate" /\ ~last.thrown
          /\ Selects(last.flags, kRandomDevice)
          /\ (Selects(last.flags, kSystemClock)
                \/ Selects(last.flags, kSteadyClock)))
       => /\ last.mixed = SeedSeqGenerate(last.scratch, last.n)
          /\ Len(last.drawn) = last.n
          /\ Len(last.out) = last.n
          /\ \A i \in 1..last.n :
                /\ last.drawn[i] = last.rd[i]
                /\ last.out[i] = Xor32(last.mixed[i], last.drawn[i])
    /\ (ref.op = "generate" /\ last.op = "generate"
          /\ ~ref.thrown /\ ~last.thrown
          /\ ref.flags = last.flags /\ ref.n = last.n
          /\ Selects(last.flags, kRandomDevice)
          /\ (Selects(last.flags, kSystemClock)
                \/ Selects(last.flags, kSteadyClock))
          /\ ref.sys = last.sys /\ ref.steady = last.steady
          /\ \A i \in 1..last.n : ref.drawn[i] # last.drawn[i])
       => \A i \in 1..last.n : ref.out[i] # last.out[i]

C3_Witness ==
    /\ ref.op = "generate" /\ last.op = "generate"
    /\ ref.flags = W(0, 7) /\ last.flags = W(0, 7)
    /\ ref.n = PairMaxN /\ last.n = PairMaxN /\ PairMaxN >= 1
    /\ ref.sys = last.sys /\ ref.steady = last.steady
    /\ \A i \in 1..last.n : ref.drawn[i] # last.drawn[i]
    /\ \A i \in 1..last.n : ref.out[i] # last.out[i]

\* C4: two generate calls with equal N on masks with none of the three
\* defined bits give the same output, whatever the clocks and the device
\* hold at each call: the output is that of a default-constructed
\* std::seed_seq, and neither a clock nor the device is touched.
C4_FallbackDeterministic ==
    /\ (last.op = "generate" /\ Restricted(last.flags) = Zero32)
       => /\ last.ev = <<EvSeedSeq>>
          /\ ~last.thrown
          /\ last.out = SeedSeqGenerate(<<>>, last.n)
    /\ (ref.op = "generate" /\ last.op = "generate"
          /\ Restricted(ref.flags) = Zero32
          /\ Restricted(last.flags) = Zero32 /\ ref.n = last.n)
       => ref.out = last.out

C4_Witness ==
    /\ ref.op = "generate" /\ last.op = "generate"
    /\ ref.flags = W(0, 0) /\ last.flags = W(0, 8)
    /\ ref.n = PairMaxN /\ last.n = PairMaxN /\ PairMaxN >= 1
    /\ ref.sysNow # last.sysNow
    /\ \A i \in 1..last.n : ref.rd[i] # last.rd[i]
    /\ ref.out = last.out

\* C5: an object constructed from a flags word holds exactly that word,
\* unrecognised bits included, before and after generate calls; size()
\* returns 1 and param writes that one word.
C5_SizeParam ==
    /\ ctor.kind = "flags" => (seq.ok /\ seq.flags = ctor.flags)
    /\ last.op = "size" => last.size = 1
    /\ (last.op = "param" /\ ctor.kind = "flags")
       => last.param = <<ctor.flags>>

C5_Witness ==
    /\ ctor.kind = "flags" /\ ctor.flags = W(65535, 65528)
    /\ last.op = "param" /\ last.afterGen
    /\ last.param = <<W(65535, 65528)>>

\* C6 as stated: an object constructed from a collection of flag values,
\* given as an iterator range or as an initializer list, exists and holds
\* the bitwise OR of the elements (0 for the empty collection).
C6_CollectionIsOr ==
    ctor.kind \in {"range", "initializer_list"}
    => (seq.ok /\ seq.flags = OrAll(ctor.items))

\* C7 as stated: in a generate call that returns, each clock is read at most
\* once and the device is queried N or 2N times.
C7_ReadsNOr2N ==
    (last.op = "generate" /\ ~last.thrown)
    => /\ EvCount(last.ev, EvSysNow[1]) <= 1
       /\ EvCount(last.ev, EvSteadyNow[1]) <= 1
       /\ Queries(last) \in {last.n, 2 * last.n}

\* C7 amended: in every generate call over N positions each clock is read
\* at most once and the device is asked at most N times, failed attempt
\* included.  A call that returns has queried the device exactly N times
\* when RandomDevice is selected and not at all otherwise (never 2N for
\* N > 0).  A call that throws has RandomDevice selected and ends in one of
\* two ways: the device failed to open, with no query made (possible for
\* every N, N = 0 included, where 0 = N queries were made); or one query
\* failed, which needs N > 0, after fewer than N queries had succeeded.
C7_BoundedReads ==
    last.op = "generate"
    => /\ EvCount(last.ev, EvSysNow[1]) <= 1
       /\ EvCount(last.ev, EvSteadyNow[1]) <= 1
       /\ Queries(last) + EvCount(last.ev, EvRdThrow(0)[1]) <= last.n
       /\ ~last.thrown =>
             /\ Queries(last) =
                   (IF Selects(last.flags, kRandomDevice) THEN last.n ELSE 0)
             /\ EvCount(last.ev, EvRdThrow(0)[1]) = 0
             /\ EvCount(last.ev, EvRdOpenThrow[1]) = 0
       /\ last.thrown =>
             /\ Selects(last.flags, kRandomDevice)
             /\ \/ /\ EvCount(last.ev, EvRdOpenThrow[1]) = 1
                   /\ EvCount(last.ev, EvRdOpen[1]) = 0
                   /\ EvCount(last.ev, EvRdThrow(0)[1]) = 0
                   /\ Queries(last) = 0
                \/ /\ EvCount(last.ev, EvRdOpenThrow[1]) = 0
                   /\ EvCount(last.ev, EvRdOpen[1]) = 1
                   /\ EvCount(last.ev, EvRdThrow(0)[1]) = 1
                   /\ last.n > 0
                   /\ Queries(last) < last.n
       /\ (last.n > 0 => Queries(last) # 2 * last.n)

C7_Witness ==
    /\ last.op = "generate" /\ ~last.thrown /\ last.n = 2
    /\ last.flags = W(0, 6)
    /\ Queries(last) = 0
    /\ EvCount(last.ev, EvSysNow[1]) = 1
    /\ EvCount(last.ev, EvSteadyNow[1]) = 1

\* C8: when constructing or querying the device throws, generate ends with
\* that exception: the throw is the call's last event and its only one, the
\* failing position is asked once and not again, and that position and all
\* later ones hold what they held before the failing read (the caller's
\* stale word in the direct branch, the mixed word in the clock branch).
C8_FailurePropagates ==
    (last.op = "generate" /\ last.thrown)
    => LET k == Len(last.drawn) + 1
           before == IF last.branch = "direct"
                     THEN [i \in 1..last.n |-> Stale] ELSE last.mixed
           throws == {EvRdThrow(0)[1], EvRdOpenThrow[1]}
       IN  /\ Len(last.ev) >= 1
           /\ last.ev[Len(last.ev)] \in {EvRdThrow(k), EvRdOpenThrow}
           /\ \A i \in 1..(Len(last.ev) - 1) : last.ev[i][1] \notin throws
           /\ last.ev[Len(last.ev)] = EvRdThrow(k) =>
                 /\ k <= last.n
                 /\ EvCountAt(last.ev, {EvRdQuery(0)[1], EvRdThrow(0)[1]}, k) = 1
                 /\ EvCountAt(last.ev, WriteKinds, k) = 0
           /\ \A i \in k..last.n :
                 /\ last.out[i] = before[i]
                 /\ EvCountAt(last.ev, WriteKinds \cup {EvRdQuery(0)[1]}, i) = 0
           /\ Queries(last) = k - 1

C8_Witness ==
    /\ last.op = "generate" /\ last.thrown /\ last.n = 2
    /\ last.branch = "mixed" /\ Len(last.drawn) = 1
    /\ last.ev[Len(last.ev)] = EvRdThrow(2)
    /\ last.out[1] # last.mixed[1] /\ last.out[2] = last.mixed[2]

\* C9: two generate calls with equal N on masks that agree on the three
\* defined bits make the same events in the same order: the same branch
\* (direct exactly when the restricted mask is RandomDevice alone), the same
\* clocks read and the same number of device queries.
C9_HighBitsIgnored ==
    /\ last.op = "generate" =>
          (last.branch = "direct" <=> Restricted(last.flags) = kRandomDevice)
    /\ (ref.op = "generate" /\ last.op = "generate"
          /\ Restricted(ref.flags) = Restricted(last.flags)
          /\ ref.n = last.n)
       => /\ ref.branch = last.branch
          /\ ref.ev = last.ev
          /\ Len(ref.sys) = Len(last.sys)
          /\ Len(ref.steady) = Len(last.steady)
          /\ Queries(ref) = Queries(last)

C9_Witness ==
    /\ ref.op = "generate" /\ last.op = "generate"
    /\ ref.flags = W(0, 1) /\ last.flags = W(0, 9)
    /\ ref.n = PairMaxN /\ last.n = PairMaxN /\ PairMaxN >= 1
    /\ ref.branch = "direct" /\ last.branch = "direct"
    /\ Queries(last) = last.n

\* C10: in the clock branch the words handed to std::seed_seq are, for each
\* selected clock, the high 32 bits of its count and then the low 32 bits,
\* the system clock's pair before the steady clock's: 0, 2 or 4 words, never
\* more, and the mixing step consumes exactly these.
C10_ScratchArray ==
    (last.op = "generate" /\ last.branch = "mixed")
    => LET f == Restricted(last.flags)
           sysWords == IF Selects(f, kSystemClock)
                       THEN <<HighWord(last.sysNow), LowWord(last.sysNow)>>
                       ELSE <<>>
           steadyWords == IF Selects(f, kSteadyClock)
                          THEN <<HighWord(last.steadyNow),
                                 LowWord(last.steadyNow)>>
                          ELSE <<>>
           clocks == (IF Selects(f, kSystemClock) THEN 1 ELSE 0)
                     + (IF Selects(f, kSteadyClock) THEN 1 ELSE 0)
       IN  /\ last.scratch = sysWords \o steadyWords
           /\ Len(last.scratch) = 2 * clocks
           /\ Len(last.scratch) \in {0, 2, 4}
           /\ last.mixed = SeedSeqGenerate(sysWords \o steadyWords, last.n)

C10_Witness ==
    /\ last.op = "generate" /\ last.branch = "mixed" /\ last.n = 2
    /\ last.flags = W(32768, 6)
    /\ last.sysNow = <<65535, 65534, 32768, 1>>
    /\ last.steadyNow = <<32767, 65535, 1, 0>>
    /\ last.scratch = <<W(65535, 65534), W(32768, 1), W(32767, 65535), W(1, 0)>>

====
